---- MODULE Spec2Model ----
(***************************************************************************)
(* TaskMgr (src/TaskMgr.ts): a FIFO work queue that runs one entry at a    *)
(* time.  A callable returns a value, raises, or returns a promise; a      *)
(* promise is awaited (wait mode) or not (donotWaitAsync).  cancelTask     *)
(* marks an id, clear() starts a new session.                              *)
(*                                                                         *)
(* JavaScript is single threaded, so a handler of the class runs without   *)
(* interruption except where it calls user code (the callable or one of    *)
(* the callbacks).  User code may call addTask, cancelTask and clear       *)
(* before it returns or raises.  The model keeps the call stack: a state   *)
(* has either an empty stack (the event loop is between jobs) or a user    *)
(* frame on top (user code is executing).  One action is one step of user  *)
(* code or one job of the event loop, together with all the code of the    *)
(* class that runs until user code is entered again or the job ends.       *)
(***************************************************************************)
EXTENDS Integers, Sequences, FiniteSets, TLC

\* Bounds of the model.
MaxId == 3          \* number of addTask calls in a run
MaxSession == 1     \* number of clear calls in a run
MaxCancelled == 1   \* size of the cancel set above which cancelTask is not tried
MaxWaitId == 4      \* number of addTask calls in a run of the wait-mode scope
MaxShift == 32      \* number of clear calls before the first addTask (id scope)

\* Width of the unsigned 32-bit conversion in addTask (>>> 0).
WordBits == 32

VARIABLES
    nextId,         \* _nextId
    running,        \* _running
    runningTasks,   \* _runningTasks (the ids that are keys of the map)
    taskCancelSet,  \* _taskCancelSet
    sessionId,      \* _sessionId
    tasks,          \* _tasks
    promises,       \* promise chains built by handleAsyncTask, not yet finished
    stack,          \* the call stack, bottom first
    h,              \* observation: what has happened to each submitted entry
    afterClear,     \* observation: the last call into the class was clear()
    scope           \* what the callers do in this run (fixed by Init)

vars == <<nextId, running, runningTasks, taskCancelSet, sessionId, tasks,
          promises, stack, h, afterClear, scope>>

-----------------------------------------------------------------------------
\* Values

Pow2(k) == 2 ^ k

\* An id is an unsigned 32-bit integer, kept as <<high half, low half>>: the
\* model checker's integers are narrower than 2^32.
Half == WordBits \div 2

\* (n << s) >>> 0 : the shift amount is taken modulo 32, the bits shifted out
\* at the top are lost, the result is read as an unsigned 32-bit integer.
Shl(n, s) ==
    LET k == s % WordBits
        lo == n % Pow2(Half)
        hi == (n \div Pow2(Half)) % Pow2(Half)
    IN  IF k < Half
        THEN <<(hi * Pow2(k) + (lo * Pow2(k)) \div Pow2(Half)) % Pow2(Half),
               (lo * Pow2(k)) % Pow2(Half)>>
        ELSE <<(lo * Pow2(k - Half)) % Pow2(Half), 0>>

\* ITask: which optional members the caller supplied (resolve, reject, catch,
\* donotWaitAsync).  addTask copies them into the entry, and the model draws
\* each when the code first reads it: catch when the entry is popped (it is
\* read in several places, so the entry keeps it from then on),
\* donotWaitAsync in handleAsyncTask (which keeps it as shouldWait), resolve
\* and reject where the one handler that reads them runs.  The callable's own
\* behaviour is chosen when it runs.
NoOpts == [res |-> FALSE, rej |-> FALSE, cat |-> FALSE, nowait |-> FALSE]

\* TaskInfo.  n is the value of _nextId the entry was numbered from; it names
\* the entry in the observation h.
TaskInfo(id, n, cat, nowait) == [id |-> id, n |-> n, cat |-> cat, nowait |-> nowait]

NoTask == TaskInfo(<<0, 0>>, 0, FALSE, FALSE)

\* A stack frame.  k = "user": user code (ph is which: "task", "resolve",
\* "reject", "catch").  k = "hft": handleFunctionTask; k = "then": the then-handlers of
\* handleAsyncTask; k = "catchh": its trailing catch handler.  For these ph
\* is what the frame is waiting for, sess the captured session, exc whether a
\* raised error is pending in the finally block, async the isAsync flag.
Frame(k, ph, task, sess, exc, async) ==
    [k |-> k, ph |-> ph, task |-> task, sess |-> sess, exc |-> exc,
     async |-> async]

User(role, task) == Frame("user", role, task, 0, FALSE, FALSE)

Top(s) == s.stack[Len(s.stack)]

Pop(s) == [s EXCEPT !.stack = SubSeq(@, 1, Len(@) - 1)]

SetTop(s, f) == [s EXCEPT !.stack = [@ EXCEPT ![Len(@)] = f]]

Push(s, f) == [s EXCEPT !.stack = Append(@, f)]

\* Observation record of an entry that has not been submitted.
NoHist == [sess |-> 0, st |-> "none", nw |-> FALSE, sres |-> FALSE,
           srej |-> FALSE, scat |-> FALSE, res |-> 0, rej |-> 0, cat |-> 0,
           diag |-> 0, cp |-> FALSE, cr |-> FALSE, cf |-> FALSE, fresh |-> FALSE,
           raised |-> FALSE]

SetSt(s, n, v) == [s EXCEPT !.h[n].st = v]

\* One more invocation of callback f ("res", "rej", "cat") of entry n, or one
\* more console.error naming it ("diag").
Count(s, n, f) == [s EXCEPT !.h[n][f] = @ + 1]

\* Entry n can still act: it is in the pending sequence, a frame of the stack
\* belongs to it, or its promise chain has not finished.
Live(s, n) ==
    \/ \E i \in 1..Len(s.tasks) : s.tasks[i].n = n
    \/ \E i \in 1..Len(s.stack) : s.stack[i].task.n = n
    \/ \E p \in s.promises : p.task.n = n

\* The observation kept in a state: of the entries that can still act, what
\* has happened to them; of the others, how they ended: skipped as cancelled,
\* cleared from the sequence by clear(), dropped when their promise settled
\* after a clear(), or gone after their callable was invoked.  (What an action does to an entry that ends with it is read from
\* the action's result.)
Forget(s) ==
    [n \in DOMAIN s.h |->
        IF s.h[n].st = "none" \/ Live(s, n) THEN s.h[n]
        ELSE [NoHist EXCEPT !.st = IF s.h[n].st \in {"skipped", "cleared", "dropped"}
                                   THEN s.h[n].st ELSE "gone"]]

\* The state as one record, so that the methods are functions on it.
Cur == [nextId |-> nextId, running |-> running, runningTasks |-> runningTasks,
        taskCancelSet |-> taskCancelSet, sessionId |-> sessionId,
        tasks |-> tasks, promises |-> promises, stack |-> stack, h |-> h,
        afterClear |-> afterClear, scope |-> scope, draw |-> NoOpts]

\* The state, and the members that the action reads for the first time.
With(o) == [Cur EXCEPT !.draw = o]

\* The members an action may read for the first time: those in m ("res",
\* "rej", "nowait") of the entry it handles and, when an entry can be popped,
\* catch of that entry.
Draws(m) ==
    [res : IF "res" \in m THEN BOOLEAN ELSE {FALSE},
     rej : IF "rej" \in m THEN BOOLEAN ELSE {FALSE},
     nowait : IF "nowait" \in m /\ scope.nowait THEN BOOLEAN ELSE {FALSE},
     cat : IF "cat" \in m \/ \E i \in 1..Len(tasks) : tasks[i].id \notin taskCancelSet
           THEN BOOLEAN ELSE {FALSE}]

Becomes(s) ==
    /\ nextId' = s.nextId
    /\ running' = s.running
    /\ runningTasks' = s.runningTasks
    /\ taskCancelSet' = s.taskCancelSet
    /\ sessionId' = s.sessionId
    /\ tasks' = s.tasks
    /\ promises' = s.promises
    /\ stack' = s.stack
    /\ h' = Forget(s)
    /\ afterClear' = s.afterClear
    /\ scope' = scope

-----------------------------------------------------------------------------
\* The methods of TaskMgr, as functions from the state to the state.  Each
\* runs until user code is entered (a user frame is on top of the stack) or
\* until the job of the event loop that called it has ended (empty stack).

RECURSIVE _step(_)
RECURSIVE Return(_, _)
RECURSIVE hftFinally(_, _)
RECURSIVE hftCatch(_)

\* A defect for C19: a handler takes a session for stale only when two calls
\* of clear() lie between.
StaleByOne(s, sess) == s.sessionId = sess + 2

\* A defect for C5: the handlers do not compare the session.
NeverStale(s, sess) == FALSE

\* this._sessionId !== sessionId, the test that opens the three handlers of
\* handleAsyncTask.
Stale(s, sess) == s.sessionId # sess

\* The report of a rejection by the onRejected handler: the reject callback
\* if supplied, else the catch callback if supplied, else console.error.
rejectReport(rej, cat) == IF rej THEN "rej" ELSE IF cat THEN "cat" ELSE "diag"

\* A defect for C2: the entry is put at the front of the sequence.
push_front(q, entry) == <<entry>> \o q

\* this._tasks.push(entry)
push(q, entry) == Append(q, entry)

\* A defect for C3: the cancel set is not consulted.
NeverCanceled(s, taskId) == FALSE

\* this._taskCancelSet.has(taskId), the test of checkAndClearCanceled.
Canceled(s, taskId) == taskId \in s.taskCancelSet

\* The effect of checkAndClearCanceled(taskId): a cancelled id is removed from
\* the cancel set and from the running tasks.
checkAndClearCanceled(s, taskId) ==
    IF Canceled(s, taskId)
    THEN [s EXCEPT !.taskCancelSet = @ \ {taskId},
                   !.runningTasks = @ \ {taskId}]
    ELSE s

\* User code is entered: frame f of the class waits below a user frame.
Invoke(s, f, role) == Push(Push(s, f), User(role, f.task))

\* handleFunctionTask up to the call task.task(): the session is captured and
\* the callable is entered.
handleFunctionTask(s, task) ==
    Invoke([s EXCEPT !.h[task.n].st = "running", !.h[task.n].scat = task.cat],
           Frame("hft", "task", task, s.sessionId, FALSE, FALSE), "task")

\* A defect for C22: after dropping a cancelled entry _step goes idle instead
\* of stepping again.
_stepIdleAfterSkip(s) ==
    IF s.tasks = <<>>
    THEN Return([s EXCEPT !.running = FALSE], "ok")
    ELSE LET task == Head(s.tasks)
             s1 == [s EXCEPT !.tasks = Tail(@)]
         IN  IF Canceled(s1, task.id)
             THEN Return([SetSt(checkAndClearCanceled(s1, task.id), task.n, "skipped")
                             EXCEPT !.running = FALSE], "ok")
             ELSE handleFunctionTask(
                      [s1 EXCEPT !.runningTasks = @ \cup {task.id}],
                      TaskInfo(task.id, task.n, s.draw.cat, FALSE))

\* _step: pop the front entry; none: idle; cancelled: drop it and step again;
\* else record it as running and handle it.
_step(s) ==
    IF s.tasks = <<>>
    THEN Return([s EXCEPT !.running = FALSE], "ok")
    ELSE LET task == Head(s.tasks)
             s1 == [s EXCEPT !.tasks = Tail(@)]
         IN  IF Canceled(s1, task.id)
             THEN _step(SetSt(checkAndClearCanceled(s1, task.id), task.n, "skipped"))
             ELSE handleFunctionTask(
                      [s1 EXCEPT !.runningTasks = @ \cup {task.id}],
                      TaskInfo(task.id, task.n, s.draw.cat, FALSE))

\* A defect for C17: the finally block does not step.
hftFinallyNoStep(s, exc) ==
    LET f == Top(s)
    IN  Return(Pop([s EXCEPT !.runningTasks = @ \ {f.task.id}]),
               IF exc THEN "throw" ELSE "ok")

\* The finally block of handleFunctionTask (the hft frame is on top); exc
\* says that an error raised in the catch block is propagating.
hftFinally(s, exc) ==
    LET f == Top(s)
    IN  IF ~f.async /\ s.sessionId = f.sess
        THEN _step(SetTop([s EXCEPT !.runningTasks = @ \ {f.task.id}],
                          [f EXCEPT !.ph = "fin", !.exc = exc]))
        ELSE Return(Pop(s), IF exc THEN "throw" ELSE "ok")

\* The catch block of handleFunctionTask (the hft frame is on top): an error
\* was raised inside the try block.
hftCatch(s) ==
    LET f == Top(s)
    IN  IF s.sessionId = f.sess
        THEN IF f.task.cat
             THEN Push(SetTop(Count(s, f.task.n, "cat"), [f EXCEPT !.ph = "catch"]),
                       User("catch", f.task))
             ELSE hftFinally(Count(s, f.task.n, "diag"), FALSE)
        ELSE hftFinally(s, FALSE)

\* handleFunctionTask after task.task() returned a value that is no promise.
hftValue(s) ==
    LET f == Top(s)
    IN  IF s.sessionId = f.sess
        THEN LET s1 == [s EXCEPT !.h[f.task.n].st = "value",
                                     !.h[f.task.n].sres = s.draw.res]
             IN  IF s.draw.res
                 THEN Push(SetTop(Count(s1, f.task.n, "res"), [f EXCEPT !.ph = "resolve"]),
                           User("resolve", f.task))
                 ELSE hftFinally(s1, FALSE)
        ELSE hftFinally(SetSt(s, f.task.n, "stale"), FALSE)

\* handleFunctionTask after task.task() raised.
hftThrow(s) ==
    LET f == Top(s)
    IN  hftCatch(SetSt(s, f.task.n,
                       IF s.sessionId = f.sess THEN "throw" ELSE "stale"))

\* handleAsyncTask, called by handleFunctionTask with the promise the
\* callable returned: the handlers are attached; an entry that is not waited
\* for steps at once, inside the try block of handleFunctionTask.
handleAsyncTask(s) ==
    LET f == Top(s)
        task == [f.task EXCEPT !.nowait = s.draw.nowait]
        s1 == [s EXCEPT !.h[task.n].st = "await",
                        !.h[task.n].nw = task.nowait,
                        !.promises = @ \cup {[task |-> task, sess |-> f.sess,
                                              ph |-> "pending"]}]
    IN  IF task.nowait
        THEN _step(SetTop(s1, [f EXCEPT !.ph = "astep", !.async = TRUE,
                                        !.task = task]))
        ELSE Return(Pop(s1), "ok")

\* A defect for C18: the then-handlers step whatever donotWaitAsync says.
thenTailSteps(s) ==
    LET f == Top(s)
    IN  _step(SetTop(s, [f EXCEPT !.ph = "step"]))

\* The last statement of both then-handlers (the then frame is on top).
thenTail(s) ==
    LET f == Top(s)
    IN  IF ~f.task.nowait
        THEN _step(SetTop(s, [f EXCEPT !.ph = "step"]))
        ELSE Return(Pop(s), "ok")

\* A then-handler raised: the promise that .then returned is rejected, and
\* its catch handler will run as a later job.
thenThrow(s) ==
    LET f == Top(s)
    IN  [Pop(s) EXCEPT !.promises = @ \cup {[task |-> f.task, sess |-> f.sess,
                                             ph |-> "catch"]}]

\* The then-handlers of handleAsyncTask: promise p settles, fulfilled
\* (ok = TRUE) or rejected.
thenHandler(s, p, ok) ==
    LET task == p.task
        s0 == [s EXCEPT !.promises = @ \ {p}]
        f == Frame("then", "cb", task, p.sess, FALSE, TRUE)
    IN  IF Stale(s0, p.sess)
        THEN SetSt(s0, task.n, "dropped")
        ELSE LET s1 == [s0 EXCEPT !.runningTasks = @ \ {task.id}]
                 hit == Canceled(s1, task.id)
                 s2 == [checkAndClearCanceled(s1, task.id) EXCEPT
                           !.h[task.n].st = IF hit THEN "discarded"
                                            ELSE IF ok THEN "fulfilled"
                                            ELSE "rejected",
                           !.h[task.n].sres = ok /\ ~hit /\ s.draw.res,
                           !.h[task.n].srej = ~ok /\ ~hit /\ s.draw.rej]
             IN  IF hit THEN thenTail(Push(s2, f))
                 ELSE IF ok
                      THEN IF s.draw.res
                           THEN Invoke(Count(s2, task.n, "res"), f, "resolve")
                           ELSE thenTail(Push(s2, f))
                      ELSE LET r == rejectReport(s.draw.rej, task.cat)
                           IN  IF r = "rej"
                               THEN Invoke(Count(s2, task.n, "rej"), f, "reject")
                               ELSE IF r = "cat"
                                    THEN Invoke(Count(s2, task.n, "cat"), f, "catch")
                                    ELSE thenTail(Push(Count(s2, task.n, "diag"), f))

\* The last statement of the trailing catch handler (its frame is on top).
catchTail(s) ==
    LET f == Top(s)
    IN  IF ~f.task.nowait
        THEN _step(SetTop(s, [f EXCEPT !.ph = "step"]))
        ELSE Return(Pop(s), "ok")

\* The trailing .catch handler of handleAsyncTask: a then-handler of p raised.
catchHandler(s, p) ==
    LET task == p.task
        s0 == [s EXCEPT !.promises = @ \ {p}]
        f == Frame("catchh", "cb", task, p.sess, FALSE, TRUE)
    IN  IF Stale(s0, p.sess)
        THEN s0
        ELSE LET s1 == [s0 EXCEPT !.runningTasks = @ \ {task.id}]
             IN  IF task.cat
                 THEN Invoke(Count(s1, task.n, "cat"), f, "catch")
                 ELSE catchTail(Push(Count(s1, task.n, "diag"), f))

\* A call of _step made by the frame on top has returned ("ok") or raised
\* ("throw").
Resume(s, status) ==
    LET f == Top(s)
    IN  CASE f.k = "hft" /\ f.ph = "fin" ->
                 Return(Pop(s), IF status = "throw" \/ f.exc THEN "throw" ELSE "ok")
          [] f.k = "hft" /\ f.ph = "astep" ->
                 IF status = "throw" THEN hftCatch(s) ELSE hftFinally(s, FALSE)
          [] f.k = "then" ->
                 IF status = "throw" THEN thenThrow(s) ELSE Pop(s)
          [] f.k = "catchh" -> Pop(s)

\* Control returns to the frame on top: user code goes on by itself (an error
\* raised by addTask is its to handle), an empty stack ends the job.
Return(s, status) ==
    IF s.stack = <<>> \/ Top(s).k = "user" THEN s ELSE Resume(s, status)

\* User code on top of the stack ends: out is "value", "promise" or "throw"
\* for the callable, "ok" or "throw" for a callback.
userDone(s, out) ==
    LET u == Top(s)
        s1 == [Pop(s) EXCEPT !.h[u.task.n].raised =
                                 @ \/ (out = "throw" /\ u.ph # "task")]
        f == Top(s1)
    IN  CASE f.k = "hft" /\ f.ph = "task" ->
                 IF out = "promise" THEN handleAsyncTask(s1)
                 ELSE IF out = "value" THEN hftValue(s1)
                 ELSE hftThrow(s1)
          [] f.k = "hft" /\ f.ph = "resolve" ->
                 IF out = "throw" THEN hftCatch(s1) ELSE hftFinally(s1, FALSE)
          [] f.k = "hft" /\ f.ph = "catch" -> hftFinally(s1, out = "throw")
          [] f.k = "then" ->
                 IF out = "throw" THEN thenThrow(s1) ELSE thenTail(s1)
          [] f.k = "catchh" ->
                 IF out = "throw" THEN Pop(s1) ELSE catchTail(s1)

\* A defect for C21: addTask steps whether or not the loop is running.
addTaskAlwaysSteps(s) ==
    LET n == s.nextId
        id == Shl(n, s.sessionId)
        s1 == [s EXCEPT !.nextId = @ + 1,
                        !.tasks = push(@, TaskInfo(id, n, FALSE, FALSE)),
                        !.h[n] = [NoHist EXCEPT !.sess = s.sessionId,
                                                !.st = "queued",
                                                !.fresh = s.afterClear],
                        !.afterClear = FALSE]
    IN  _step([s1 EXCEPT !.running = TRUE])

\* addTask(task): number the entry, append it, start the loop when idle.
addTask(s) ==
    LET n == s.nextId
        id == Shl(n, s.sessionId)
        s1 == [s EXCEPT !.nextId = @ + 1,
                        !.tasks = push(@, TaskInfo(id, n, FALSE, FALSE)),
                        !.h[n] = [NoHist EXCEPT !.sess = s.sessionId,
                                                !.st = "queued",
                                                !.fresh = s.afterClear],
                        !.afterClear = FALSE]
    IN  IF ~s1.running THEN _step([s1 EXCEPT !.running = TRUE]) ELSE s1

\* Observation for cancelTask(id): the entry with that id is in the pending
\* sequence (cp), its callable is executing (cr), or its promise is unsettled
\* (cf).
NoteCancel(s, id) ==
    [s EXCEPT !.h = [n \in DOMAIN @ |->
        [@[n] EXCEPT
           !.cp = @ \/ \E i \in 1..Len(s.tasks) :
                          s.tasks[i].n = n /\ s.tasks[i].id = id,
           !.cr = @ \/ \E i \in 1..Len(s.stack) :
                          /\ s.stack[i].k = "user" /\ s.stack[i].ph = "task"
                          /\ s.stack[i].task.n = n /\ s.stack[i].task.id = id,
           !.cf = @ \/ \E p \in s.promises :
                          p.ph = "pending" /\ p.task.n = n /\ p.task.id = id]]]

\* A defect for C12: a second cancelTask(id) takes the mark back.
cancelTaskToggles(s, id) ==
    [NoteCancel(s, id) EXCEPT
        !.taskCancelSet = IF id \in @ THEN @ \ {id} ELSE @ \cup {id},
        !.afterClear = FALSE]

\* cancelTask(id)
cancelTask(s, id) ==
    [NoteCancel(s, id) EXCEPT !.taskCancelSet = @ \cup {id}, !.afterClear = FALSE]

\* A defect for C6: clear() leaves the pending sequence as it is.
clearKeepsTasks(s) ==
    [s EXCEPT !.sessionId = @ + 1,
              !.taskCancelSet = {},
              !.running = FALSE,
              !.runningTasks = {},
              !.afterClear = TRUE]

\* A defect for C7: clear() leaves the _running flag as it is.
clearKeepsRunning(s) ==
    [s EXCEPT !.sessionId = @ + 1,
              !.tasks = <<>>,
              !.taskCancelSet = {},
              !.runningTasks = {},
              !.h = [n \in DOMAIN @ |->
                        IF @[n].st = "queued" THEN [@[n] EXCEPT !.st = "cleared"]
                        ELSE @[n]],
              !.afterClear = TRUE]

\* clear()
clear(s) ==
    [s EXCEPT !.sessionId = @ + 1,
              !.tasks = <<>>,
              !.taskCancelSet = {},
              !.running = FALSE,
              !.runningTasks = {},
              !.h = [n \in DOMAIN @ |->
                        IF @[n].st = "queued" THEN [@[n] EXCEPT !.st = "cleared"]
                        ELSE @[n]],
              !.afterClear = TRUE]

\* A defect for C11: the cancel set is not looked at.
isTaskAliveIgnoringCancel(s, taskId) ==
    \/ taskId \in s.runningTasks
    \/ \E i \in 1..Len(s.tasks) : s.tasks[i].id = taskId

\* isTaskAlive(taskId): not cancelled, and running or in the pending sequence.
isTaskAlive(s, taskId) ==
    IF taskId \in s.taskCancelSet THEN FALSE
    ELSE IF taskId \in s.runningTasks THEN TRUE
    ELSE \E i \in 1..Len(s.tasks) : s.tasks[i].id = taskId

-----------------------------------------------------------------------------
\* The state machine

\* The scope of a run: how many addTask and clear calls are made, and whether
\* entries with donotWaitAsync are submitted.
AnyScope == [ids |-> MaxId, clears |-> MaxSession, nowait |-> TRUE]

\* Any entries, and no clear().
NoClearScope == [ids |-> MaxId, clears |-> 0, nowait |-> TRUE]

\* Entries that are waited for only, and no clear().
WaitScope == [ids |-> MaxWaitId, clears |-> 0, nowait |-> FALSE]

\* The state after construction.
Created(sc) ==
    /\ nextId = 1
    /\ running = FALSE
    /\ runningTasks = {}
    /\ taskCancelSet = {}
    /\ sessionId = 0
    /\ tasks = <<>>
    /\ promises = {}
    /\ stack = <<>>
    /\ h = [n \in 1..sc.ids |-> NoHist]
    /\ afterClear = FALSE
    /\ scope = sc

Init == Created(AnyScope)

InitWait == Created(WaitScope)

InitNoClear == Created(NoClearScope)

\* The state after construction and k calls of clear(): only _sessionId has
\* changed.
Cleared(sc, k) ==
    /\ nextId = 1
    /\ running = FALSE
    /\ runningTasks = {}
    /\ taskCancelSet = {}
    /\ sessionId = k
    /\ tasks = <<>>
    /\ promises = {}
    /\ stack = <<>>
    /\ h = [n \in 1..sc.ids |-> NoHist]
    /\ afterClear = (k > 0)
    /\ scope = sc

\* A fresh instance on which clear() was called any number of times.
InitId == \E k \in 0..MaxShift : Cleared(NoClearScope, k)

\* The event loop is between jobs.
Quiet == stack = <<>>

\* The ids cancelTask is tried with: those of the session, issued or not.
CancelIds ==
    IF Cardinality(taskCancelSet) < MaxCancelled
    THEN {Shl(n, sessionId) : n \in 1..scope.ids} ELSE {}

\* The results of the calls and jobs that can happen in the state: for each
\* action the states it can lead to, as the methods leave them.

AddTaskResults ==
    IF nextId <= scope.ids THEN {addTask(With(o)) : o \in Draws({"cat"})} ELSE {}

CancelTaskResults == {cancelTask(Cur, id) : id \in CancelIds}

ClearResults == IF sessionId < scope.clears THEN {clear(Cur)} ELSE {}

\* User code of kind role ("task" or a callback) is executing.
InUser(role) ==
    IF Quiet THEN FALSE ELSE (Top(Cur).ph = "task") = (role = "task")

TaskReturnsResults ==
    IF InUser("task") THEN {userDone(With(o), "value") : o \in Draws({"res"})}
    ELSE {}

TaskReturnsPromiseResults ==
    IF InUser("task") THEN {userDone(With(o), "promise") : o \in Draws({"nowait"})}
    ELSE {}

TaskThrowsResults ==
    IF InUser("task") THEN {userDone(With(o), "throw") : o \in Draws({})}
    ELSE {}

CallbackReturnsResults ==
    IF InUser("callback") THEN {userDone(With(o), "ok") : o \in Draws({})}
    ELSE {}

CallbackThrowsResults ==
    IF InUser("callback") THEN {userDone(With(o), "throw") : o \in Draws({})}
    ELSE {}

\* The promises whose handler of phase ph can run as the next job.
Ready(ph) == IF Quiet THEN {p \in promises : p.ph = ph} ELSE {}

FulfilResults ==
    {thenHandler(With(o), p, TRUE) : p \in Ready("pending"), o \in Draws({"res"})}

RejectResults ==
    {thenHandler(With(o), p, FALSE) : p \in Ready("pending"), o \in Draws({"rej"})}

CatchJobResults ==
    {catchHandler(With(o), p) : p \in Ready("catch"), o \in Draws({})}

\* addTask(task) is called, by a job of the event loop or by user code that
\* is executing.
AddTask == \E r \in AddTaskResults : Becomes(r)

\* cancelTask(id) is called.
CancelTask == \E r \in CancelTaskResults : Becomes(r)

\* clear() is called.
Clear == \E r \in ClearResults : Becomes(r)

\* The callable returns a value that is no promise.
TaskReturns == \E r \in TaskReturnsResults : Becomes(r)

\* The callable returns a promise.
TaskReturnsPromise == \E r \in TaskReturnsPromiseResults : Becomes(r)

\* The callable raises.
TaskThrows == \E r \in TaskThrowsResults : Becomes(r)

\* A callback returns.
CallbackReturns == \E r \in CallbackReturnsResults : Becomes(r)

\* A callback raises.
CallbackThrows == \E r \in CallbackThrowsResults : Becomes(r)

\* A promise returned by a callable is fulfilled; its then-handler runs.
Fulfil == \E r \in FulfilResults : Becomes(r)

\* A promise returned by a callable is rejected; its then-handler runs.
Reject == \E r \in RejectResults : Becomes(r)

\* The trailing catch handler of a chain whose then-handler raised runs.
CatchJob == \E r \in CatchJobResults : Becomes(r)

Next ==
    \/ AddTask
    \/ CancelTask
    \/ Clear
    \/ TaskReturns
    \/ TaskReturnsPromise
    \/ TaskThrows
    \/ CallbackReturns
    \/ CallbackThrows
    \/ Fulfil
    \/ Reject
    \/ CatchJob

Spec == Init /\ [][Next]_vars

\* The runs without clear() in which every entry is waited for.
NextWait ==
    \/ AddTask
    \/ CancelTask
    \/ TaskReturns
    \/ TaskReturnsPromise
    \/ TaskThrows
    \/ CallbackReturns
    \/ CallbackThrows
    \/ Fulfil
    \/ Reject
    \/ CatchJob

WaitSpec == InitWait /\ [][NextWait]_vars

\* The runs in which, after the calls of clear(), entries are submitted and
\* complete with a value or a fulfilled promise.
NextId ==
    \/ AddTask
    \/ TaskReturns
    \/ TaskReturnsPromise
    \/ CallbackReturns
    \/ Fulfil

IdSpec == InitId /\ [][NextId]_vars

\* The runs in which, after the calls of clear(), entries are submitted and
\* complete with a value or a fulfilled promise, and ids are cancelled.
NextMark ==
    \/ AddTask
    \/ CancelTask
    \/ TaskReturns
    \/ TaskReturnsPromise
    \/ CallbackReturns
    \/ Fulfil

MarkSpec == InitId /\ [][NextMark]_vars

\* User code that has been entered ends, and a job that is ready runs: a
\* callable or callback returns or raises, a promise settles one way or the
\* other, a rejected chain runs its catch handler.
Fairness ==
    /\ WF_vars(TaskReturns \/ TaskReturnsPromise \/ TaskThrows)
    /\ WF_vars(CallbackReturns \/ CallbackThrows)
    /\ WF_vars(Fulfil \/ Reject)
    /\ WF_vars(CatchJob)

\* The runs without clear() in which every promise settles.
FairSpec == InitNoClear /\ [][NextWait]_vars /\ Fairness

-----------------------------------------------------------------------------
\* Vocabulary of the properties

Ids == DOMAIN h

\* The callable of entry n has been invoked, and the entry can still act.
Started(n) ==
    h[n].st \in {"running", "await", "value", "throw", "fulfilled", "rejected",
                 "discarded", "dropped", "stale", "gone"}

\* Entry n has been popped and its outcome is neither delivered nor discarded.
Unfinished(n) == h[n].st \in {"running", "await"}

\* Entries a and b were submitted in the same session.
SameEpoch(a, b) ==
    /\ h[a].st \notin {"none", "gone", "skipped", "cleared", "dropped"}
    /\ h[b].st \notin {"none", "gone", "skipped", "cleared", "dropped"}
    /\ h[a].sess = h[b].sess

\* Invocations of the callbacks of entry n, and diagnostics naming it.
Reports(r) == <<r.res, r.rej, r.cat, r.diag>>

Silent == <<0, 0, 0, 0>>

\* The reports of entry n that result r adds to those of the state.
New(r, n) ==
    <<r.h[n].res - h[n].res, r.h[n].rej - h[n].rej, r.h[n].cat - h[n].cat,
      r.h[n].diag - h[n].diag>>

\* The results of the jobs of the promise chains: a settlement, and the catch
\* handler that ends a chain.
SettleResults == FulfilResults \cup RejectResults \cup CatchJobResults

\* The results of every call and job that can happen in the state.
AllResults ==
    AddTaskResults \cup CancelTaskResults \cup ClearResults
        \cup TaskReturnsResults \cup TaskReturnsPromiseResults
        \cup TaskThrowsResults \cup CallbackReturnsResults
        \cup CallbackThrowsResults \cup FulfilResults \cup RejectResults
        \cup CatchJobResults

\* The id that addTask gave entry n (of an entry that can still act).
EntryId(n) == Shl(n, h[n].sess)

\* The ids that a caller can hold or guess: those of every counter value in
\* every session so far.
AllIds == {Shl(n, s) : n \in Ids, s \in 0..sessionId}

\* The id of entry n as result r holds it: in the pending sequence, in a
\* frame of the stack or in a promise chain.
IdsIn(r, n) ==
    {r.tasks[i].id : i \in {j \in 1..Len(r.tasks) : r.tasks[j].n = n}}
        \cup {r.stack[i].task.id : i \in {j \in 1..Len(r.stack) : r.stack[j].task.n = n}}
        \cup {p.task.id : p \in {q \in r.promises : q.task.n = n}}

\* x < y for ids, which are pairs of halves.
Less(x, y) == x[1] < y[1] \/ (x[1] = y[1] /\ x[2] < y[2])

\* In result r the loop has advanced: the callable of a pending entry has been
\* entered, or nothing was pending and the loop is idle.
Advanced(r) ==
    \/ r.tasks = <<>> /\ ~r.running
    \/ \E m \in Ids : h[m].st = "queued" /\ r.h[m].st = "running"

-----------------------------------------------------------------------------
\* C1: within one session, the callable of a later entry is not invoked while
\* an earlier entry that is waited for (its callable is executing, or its
\* promise is unsettled and donotWaitAsync is not set) has its outcome neither
\* delivered nor discarded.
C1_WaitOrder ==
    \A a, b \in Ids :
        a < b /\ SameEpoch(a, b) /\ Started(b) /\ Unfinished(a)
            => h[a].st = "await" /\ h[a].nw

\* C2: within one session the callables are invoked in submission order: when
\* the callable of an entry has been invoked, no entry submitted before it in
\* that session is still in the pending sequence.
C2_LaunchOrder ==
    \A a, b \in Ids :
        a < b /\ SameEpoch(a, b) /\ Started(b) => h[a].st # "queued"

\* C2 happens: a later entry's callable is entered while an earlier entry of
\* the session, not waited for, is still unsettled, and the later entry was
\* submitted by user code.
C2_Witness ==
    \E a, b \in Ids :
        /\ a < b /\ SameEpoch(a, b)
        /\ h[a].st = "await" /\ h[a].nw /\ h[b].st = "running"
        /\ Len(stack) > 2

\* C3: an entry cancelled while it was in the pending sequence, no clear()
\* following, stays pending until it is skipped: its callable is not invoked
\* and none of its callbacks or diagnostics happens; and the step that skips
\* it goes on to the entries behind it.
C3_CancelPending ==
    \A r \in AllResults : \A n \in Ids :
        /\ r.h[n].cp /\ r.h[n].sess = r.sessionId
               => r.h[n].st \in {"queued", "skipped"} /\ Reports(r.h[n]) = Silent
        /\ h[n].st = "queued" /\ r.h[n].st = "skipped" => Advanced(r)

\* C3 happens: an entry has run, the entry behind it was skipped, and the
\* callable of the entry behind that one is executing.
C3_Witness ==
    \E a, n, m \in Ids :
        /\ a < n /\ n < m /\ sessionId = 0
        /\ Started(a) /\ h[n].st = "skipped" /\ h[m].st = "running"

\* C4: for an entry cancelled while its promise was unsettled, the jobs of
\* its promise chain invoke no completion, failure or generic-error callback
\* and emit no diagnostic naming it.
C4_CancelInFlight ==
    \A r \in SettleResults : \A n \in Ids :
        h[n].cf => New(r, n) = Silent

\* C5: for an entry of an earlier session no callback is invoked and no
\* diagnostic is emitted, whatever happens; when its promise settles it is
\* dropped.
C5_StaleSilent ==
    \A r \in AllResults : \A n \in Ids :
        h[n].st # "none" /\ h[n].sess # sessionId
            => /\ Reports(r.h[n]) = Reports(h[n])
               /\ h[n].st = "await" => r.h[n].st \in {"await", "dropped"}

\* C5 happens: after a clear() the promise of an entry has settled and was
\* dropped, while the promise of another entry of the earlier session, not
\* waited for, is unsettled and an entry of the new session is in flight.
C5_Witness ==
    \E a, b, c \in Ids :
        /\ h[a].st = "dropped"
        /\ h[b].st = "await" /\ h[b].nw /\ h[b].sess # sessionId
        /\ h[c].st = "await" /\ h[c].sess = sessionId

\* C6: clear() leaves the pending sequence and the cancel set empty and the
\* loop idle, and an entry it removed from the sequence is never launched.
C6_ClearEmpties ==
    /\ \A r \in ClearResults :
           /\ r.tasks = <<>> /\ r.taskCancelSet = {} /\ ~r.running
           /\ \A n \in Ids : h[n].st = "queued"
                  => r.h[n].st = "cleared" /\ ~Live(r, n)
    /\ \A r \in AllResults : \A n \in Ids :
           h[n].st = "cleared" => r.h[n].st = "cleared"

\* C6 happens: clear() removed an entry from the sequence, and the entry that
\* was in flight then has settled since.
C6_Witness ==
    \E m, n \in Ids :
        m < n /\ h[m].st = "dropped" /\ h[n].st = "cleared" /\ tasks = <<>>

\* C7: addTask called right after clear() enters the callable of the new
\* entry at once; and the outcome of such an entry, if it is not cancelled and
\* no further clear() happens, is delivered: a value to resolve, a rejection
\* or a raised error to one of reject, catch or the diagnostic.
C7_FreshSubmit ==
    /\ afterClear => \A r \in AddTaskResults : r.h[nextId].st = "running"
    /\ \A r \in AllResults : \A n \in Ids :
           r.h[n].fresh /\ ~r.h[n].cr /\ ~r.h[n].cf /\ r.h[n].sess = r.sessionId
               => /\ r.h[n].st \in {"value", "fulfilled"} /\ r.h[n].sres
                      => r.h[n].res = 1
                  /\ r.h[n].st = "rejected"
                      => r.h[n].rej + r.h[n].cat + r.h[n].diag >= 1
                  /\ r.h[n].st = "throw"
                      => r.h[n].cat + r.h[n].diag >= 1

\* C7 happens: the resolve callback of an entry submitted right after a
\* clear() is executing with the entry's fulfilled promise, while a promise
\* of the earlier session is still unsettled.
C7_Witness ==
    \E m, n \in Ids :
        /\ h[n].fresh /\ h[n].st = "fulfilled" /\ h[n].res = 1
        /\ h[m].st = "await" /\ h[m].sess # sessionId

\* C8, the settlement: when the promise of an entry of the current session,
\* not cancelled, is rejected, the handler makes exactly one report: the
\* reject callback if supplied, else the catch callback if supplied, else a
\* diagnostic.
C8_OneReport ==
    \A r \in RejectResults : \A n \in Ids :
        h[n].st = "await" /\ r.h[n].st = "rejected"
            => New(r, n) =
                   <<0,
                     IF r.h[n].srej THEN 1 ELSE 0,
                     IF ~r.h[n].srej /\ r.h[n].scat THEN 1 ELSE 0,
                     IF ~r.h[n].srej /\ ~r.h[n].scat THEN 1 ELSE 0>>

\* C8: the report of the rejection is the only one: that one report is made
\* at the settlement, and as long as no callback of the entry has raised no
\* other callback of the entry is invoked and no other diagnostic names it.
C8_ExactlyOne ==
    /\ C8_OneReport
    /\ \A r \in AllResults : \A n \in Ids :
           h[n].st = "rejected" /\ ~r.h[n].raised => New(r, n) = Silent

\* C9: when the callable of an entry with donotWaitAsync returns a promise
\* the loop advances in that step, the promise unsettled; and addTask called
\* with no session's callable or callback executing, nothing pending and only
\* entries that are not waited for in flight enters the callable at once.
C9_NoBlocking ==
    /\ \A r \in TaskReturnsPromiseResults : \A n \in Ids :
           h[n].st = "running" /\ r.h[n].st = "await" /\ r.h[n].nw
               => Advanced(r) /\ \E p \in r.promises : p.task.n = n
    /\ ( /\ Quiet /\ tasks = <<>>
         /\ \E p \in promises : p.sess = sessionId
         /\ \A p \in promises : p.sess = sessionId => p.task.nowait
         /\ Shl(nextId, sessionId) \notin taskCancelSet )
           => \A r \in AddTaskResults : r.h[nextId].st = "running"

\* C10, as a state property: without clear(), when no callable or callback is
\* executing and no promise is unsettled, no entry is pending.
C10_NoStall ==
    sessionId = 0 /\ Quiet /\ promises = {} => tasks = <<>>

\* C10: without clear(), every promise settling, each entry in the pending
\* sequence is eventually popped.
C10_EventuallyPopped ==
    \A n \in 1..MaxId : (h[n].st = "queued") ~> (h[n].st # "queued")

C12_CancelIdempotent ==
    \A id \in AllIds :
        LET once == cancelTask(Cur, id)
            twice == cancelTask(once, id)
        IN  /\ twice = once
            /\ once.taskCancelSet = taskCancelSet \cup {id}
            /\ once.tasks = tasks /\ once.running = running
            /\ once.runningTasks = runningTasks /\ once.nextId = nextId
            /\ once.sessionId = sessionId
            /\ once.stack = stack /\ once.promises = promises
            /\ \A n \in Ids : New(once, n) = Silent /\ once.h[n].st = h[n].st

\* C12 happens: cancelTask has been called with the id of an entry in
\* flight, an entry is pending behind it and an entry has finished (ids never
\* issued are those of the counter values in the other session).
C12_Witness ==
    \E a, b \in Ids :
        /\ h[a].st = "gone" /\ h[b].st = "await" /\ h[b].cf
        /\ EntryId(b) \in taskCancelSet
        /\ tasks # <<>> /\ sessionId > 0

\* C13: an entry cancelled while its callable was executing, the callable
\* not returning a promise, gets no report when the callable ends: resolve is
\* not invoked for the returned value, catch and the diagnostic not for the
\* raised error.
C13_CancelWhileRunning ==
    \A r \in TaskReturnsResults \cup TaskThrowsResults : \A n \in Ids :
        h[n].st = "running" /\ h[n].cr /\ r.h[n].st \in {"value", "throw"}
            => New(r, n) = Silent

\* C14, where the marks are set by a cancel during a promise or while
\* pending: when a pending entry is popped, and when the promise of an entry
\* of the current session settles, the entry's id is not in the cancel set
\* afterwards.
C14_MarkRemovedAsync ==
    \A r \in AllResults : \A n \in Ids :
        /\ h[n].sess = sessionId /\ r.sessionId = sessionId
        /\ \/ h[n].st = "queued" /\ r.h[n].st # "queued"
           \/ h[n].st = "await"
                  /\ r.h[n].st \in {"fulfilled", "rejected", "discarded"}
        => EntryId(n) \notin r.taskCancelSet

\* C14: the id of an entry is out of the cancel set once the scheduler has
\* observed the entry: when it is popped, when its promise settles, and when
\* its callable has ended with a value or a raised error and the callbacks
\* are due.
C14_MarkRemoved ==
    /\ C14_MarkRemovedAsync
    /\ \A r \in TaskReturnsResults \cup TaskThrowsResults : \A n \in Ids :
           /\ h[n].sess = sessionId /\ r.sessionId = sessionId
           /\ h[n].st = "running" /\ r.h[n].st \in {"value", "throw"}
           => EntryId(n) \notin r.taskCancelSet

\* C15: the id that addTask gives the new entry is greater than the id of
\* every entry submitted before it in the session (here: since the last
\* clear(), which came before the first addTask), so the ids of a session
\* are increasing and distinct.
C15_IdsIncrease ==
    \A r \in AddTaskResults : \A a \in Ids :
        a < nextId =>
            \A x \in IdsIn(Cur, a) : \A y \in IdsIn(r, nextId) : Less(x, y)

\* C16: whenever no callable or callback is executing, _running is true
\* exactly when one entry of the current session that is waited for has been
\* popped and its outcome is outstanding (its promise is unsettled, or its
\* chain has still to run its catch handler), and there are never two such
\* entries.
C16_TwoStates ==
    Quiet =>
        LET W == {n \in Ids : /\ h[n].sess = sessionId
                              /\ \E p \in promises : p.task.n = n /\ ~p.task.nowait}
        IN  /\ Cardinality(W) <= 1
            /\ running <=> Cardinality(W) = 1

\* C17: when the callable of an entry raises, the session unchanged and the
\* entry not cancelled, the catch callback is invoked if supplied, else the
\* diagnostic is emitted, once; resolve and reject are never invoked for the
\* entry; and the loop advances, in that step if there is no catch callback,
\* else in the step in which the catch callback ends (session unchanged).
C17_SyncRaise ==
    /\ \A r \in TaskThrowsResults : \A n \in Ids :
           h[n].st = "running" /\ ~h[n].cr /\ r.h[n].st = "throw"
               => /\ New(r, n) = <<0, 0, IF r.h[n].scat THEN 1 ELSE 0,
                                  IF r.h[n].scat THEN 0 ELSE 1>>
                  /\ ~r.h[n].scat => Advanced(r)
    /\ \A r \in CallbackReturnsResults \cup CallbackThrowsResults : \A n \in Ids :
           /\ h[n].st = "throw" /\ r.sessionId = h[n].sess
           /\ stack # <<>> /\ Top(Cur).task.n = n
           => New(r, n) = Silent /\ Advanced(r)
    /\ \A r \in AllResults : \A n \in Ids :
           r.h[n].st = "throw" => r.h[n].res = 0 /\ r.h[n].rej = 0

\* C17 happens: the callable of an entry raised, its catch callback has been
\* invoked and is executing, and an entry is pending behind it.
C17_Witness ==
    \E n, m \in Ids :
        /\ h[n].st = "throw" /\ h[n].cat = 1 /\ h[n].diag = 0
        /\ h[m].st = "queued" /\ n < m

\* Result r of a job or callback end of the chain of entry n (id the entry's
\* id) has left the scheduler alone: the pending sequence, _running, the
\* counters and the other entries are as before, and only id may have left
\* the running tasks and the cancel set.
LeftAlone(r, n, id) ==
    /\ r.tasks = tasks /\ r.running = running
    /\ r.nextId = nextId /\ r.sessionId = sessionId
    /\ r.runningTasks = runningTasks \ {id}
    /\ r.taskCancelSet \in {taskCancelSet, taskCancelSet \ {id}}
    /\ \A m \in Ids : m # n => r.h[m] = h[m]
    /\ \A i \in 1..Len(r.stack) : i > Len(stack) => r.stack[i].task.n = n

\* C18: the settlement of the promise of an entry of the current session
\* with donotWaitAsync, fulfilled or rejected, cancelled or not, pops no
\* entry, enters no other entry's callable and leaves the pending sequence
\* and _running as they are; so do the end of the callback it invokes and the
\* catch handler of the chain.
C18_NoWaitSettles ==
    /\ \A p \in Ready("pending") : p.task.nowait /\ p.sess = sessionId =>
           \A o \in Draws({"res", "rej"}) : \A ok \in BOOLEAN :
               LeftAlone(thenHandler(With(o), p, ok), p.task.n, p.task.id)
    /\ \A p \in Ready("catch") : p.task.nowait /\ p.sess = sessionId =>
           \A o \in Draws({}) :
               LeftAlone(catchHandler(With(o), p), p.task.n, p.task.id)
    /\ \A out \in {"ok", "throw"} :
           ( /\ InUser("callback") /\ Len(stack) = 2
             /\ stack[1].k \in {"then", "catchh"} /\ stack[1].task.nowait )
               => \A o \in Draws({}) :
                      LET r == userDone(With(o), out)
                      IN  /\ r.tasks = tasks /\ r.running = running
                          /\ r.runningTasks = runningTasks
                          /\ r.taskCancelSet = taskCancelSet
                          /\ \A m \in Ids : m # stack[1].task.n
                                 => r.h[m].st = h[m].st

\* C18 happens: the promise of an entry with donotWaitAsync has settled and
\* its callback is executing, while an entry is pending behind an entry that
\* is waited for.
C18_Witness ==
    \E n, w, m \in Ids :
        /\ h[n].nw /\ h[n].st \in {"fulfilled", "rejected"}
        /\ h[n].sess = sessionId
        /\ h[w].st = "await" /\ ~h[w].nw /\ h[w].sess = sessionId
        /\ h[m].st = "queued"

\* C19: a job of the promise chain of an entry whose captured session is not
\* the live one changes no field of the scheduler: pending sequence, cancel
\* set, running tasks, _running, counter and session stay as they are, no
\* user code is entered and no other entry is touched.
C19_StaleNoOp ==
    \A p \in Ready("pending") \cup Ready("catch") : p.sess # sessionId =>
        \A o \in Draws({"res", "rej"}) : \A ok \in BOOLEAN :
            LET r == IF p.ph = "pending" THEN thenHandler(With(o), p, ok)
                     ELSE catchHandler(With(o), p)
            IN  /\ r.tasks = tasks /\ r.taskCancelSet = taskCancelSet
                /\ r.runningTasks = runningTasks /\ r.running = running
                /\ r.nextId = nextId /\ r.sessionId = sessionId
                /\ r.stack = stack
                /\ \A m \in Ids : m # p.task.n => r.h[m] = h[m]

\* C19 happens: a promise of the earlier session has settled and was
\* dropped, and the new session still has its entry in flight, an entry
\* pending and a mark in the cancel set.
C19_Witness ==
    \E a, b, c \in Ids :
        /\ h[a].st = "dropped" /\ sessionId > 0
        /\ h[b].st = "await" /\ ~h[b].nw /\ h[b].sess = sessionId
        /\ h[c].st = "queued" /\ running
        /\ taskCancelSet # {} /\ runningTasks # {}

\* C20, the two steps: cancelTask with the id of an entry of the current
\* session that is waited for and whose promise is unsettled launches nothing
\* and leaves the pending sequence as it is; and the settlement of that
\* promise, fulfilled or rejected, reports nothing for the entry and advances
\* the loop.
C20_CancelThenSettle ==
    /\ \A p \in promises :
           p.ph = "pending" /\ ~p.task.nowait /\ p.sess = sessionId =>
               LET r == cancelTask(Cur, p.task.id)
               IN  /\ r.tasks = tasks /\ r.running = running /\ r.stack = stack
                   /\ \A m \in Ids : r.h[m].st = h[m].st
    /\ \A p \in Ready("pending") :
           /\ ~p.task.nowait /\ p.sess = sessionId
           /\ p.task.id \in taskCancelSet
           => \A o \in Draws({"res", "rej"}) : \A ok \in BOOLEAN :
                  LET r == thenHandler(With(o), p, ok)
                  IN  /\ New(r, p.task.n) = Silent
                      /\ r.h[p.task.n].st = "discarded"
                      /\ Advanced(r)

\* C20: besides, between the cancelTask and the settlement no step enters the
\* callable of an entry pending behind the cancelled one (no clear() in
\* between): the next callable is invoked when the promise settles, not
\* before.
C20_CancelNeitherAdvancesNorStalls ==
    /\ C20_CancelThenSettle
    /\ \A r \in AllResults : \A w, m \in Ids :
           /\ h[w].st = "await" /\ ~h[w].nw /\ h[w].cf
           /\ h[w].sess = sessionId /\ r.sessionId = sessionId
           /\ r.h[w].st = "await"
           /\ h[m].st = "queued"
           => r.h[m].st = "queued"

\* The results of user code ending: a callable or a callback returns or
\* raises.
UserEndResults ==
    TaskReturnsResults \cup TaskReturnsPromiseResults \cup TaskThrowsResults
        \cup CallbackReturnsResults \cup CallbackThrowsResults

\* The frames of handleFunctionTask that addTask itself has called (by way of
\* _step): the one at the bottom of the stack and those right above user
\* code.  When the stack is cut below such a frame, that addTask has returned
\* or raised.
Submitted == {i \in 1..Len(stack) : /\ stack[i].k = "hft"
                                    /\ i = 1 \/ stack[i - 1].k = "user"}

\* C21: addTask on an idle scheduler (the id not cancelled beforehand) enters
\* the callable of the new entry within the call; when that callable was
\* synchronous, at the return of addTask the outcome has been delivered (the
\* value to resolve if supplied, a raised error to catch or the diagnostic),
\* the entry is finished, isTaskAlive of its id is false and, nothing else
\* having been submitted meanwhile, the scheduler is idle with nothing
\* pending.  addTask on a running scheduler enters no user code and only
\* appends the entry.
C21_SubmitStarts ==
    /\ ~running /\ Shl(nextId, sessionId) \notin taskCancelSet =>
           \A r \in AddTaskResults :
               /\ r.h[nextId].st = "running" /\ r.running
               /\ Len(r.stack) = Len(stack) + 2
               /\ Top(r) = User("task", Top(r).task) /\ Top(r).task.n = nextId
    /\ running =>
           \A r \in AddTaskResults :
               /\ r.stack = stack /\ r.running /\ r.promises = promises
               /\ Len(r.tasks) = Len(tasks) + 1
               /\ SubSeq(r.tasks, 1, Len(tasks)) = tasks
               /\ r.tasks[Len(r.tasks)].n = nextId
               /\ r.runningTasks = runningTasks
               /\ r.taskCancelSet = taskCancelSet
               /\ r.h[nextId].st = "queued"
               /\ \A m \in Ids : m # nextId => r.h[m] = h[m]
    /\ \A r \in UserEndResults : \A i \in Submitted :
           LET n == stack[i].task.n
           IN  Len(r.stack) = i - 1 /\ r.h[n].st \in {"value", "throw", "stale"}
                   => /\ ~Live(r, n)
                      /\ ~isTaskAlive(r, stack[i].task.id)
                      /\ r.h[n].st = "value"
                             => r.h[n].res = IF r.h[n].sres THEN 1 ELSE 0
                      /\ r.h[n].st = "throw"
                             => IF r.h[n].scat THEN r.h[n].cat = 1
                                ELSE r.h[n].diag = 1
                      /\ r.nextId = n + 1 => ~r.running /\ r.tasks = <<>>

\* C21 happens: addTask was called on the scheduler that a clear() had left
\* idle, with a promise of the earlier session unsettled; the callable of the
\* new entry has returned a value, and its resolve callback is executing,
\* the last user code before addTask returns.
C21_Witness ==
    \E n, m \in Ids :
        /\ Len(stack) = 2 /\ Submitted = {1} /\ stack[1].task.n = n
        /\ stack[2].ph = "resolve"
        /\ h[n].st = "value" /\ h[n].res = 1 /\ nextId = n + 1
        /\ tasks = <<>> /\ sessionId > 0
        /\ h[m].st = "await" /\ h[m].sess # sessionId

\* C22: an entry in the pending sequence implies that _running is true, in
\* every state: whenever no callable or callback is executing, and also while
\* one is, after any calls of addTask, cancelTask and clear() and any
\* settlements (an idle scheduler has an empty pending sequence).
C22_NoLostWakeup == tasks # <<>> => running

\* C22 happens: no user code is executing and an entry is pending in the
\* session after a clear() that was called while the loop was running, with a
\* promise of the earlier session dropped since and a mark in the cancel set.
C22_Witness ==
    /\ Quiet /\ tasks # <<>> /\ running /\ sessionId > 0
    /\ taskCancelSet # {}
    /\ \E n \in Ids : h[n].st = "dropped"

\* Entry a was submitted and can act no more.
Finished(a) == h[a].st \in {"gone", "skipped", "cleared", "dropped"}

\* The marks in the cancel set that carry the id, in the current session, of
\* a counter value whose entry is finished.
DeadMarks ==
    {x \in taskCancelSet : \E a \in Ids : Finished(a) /\ x = Shl(a, sessionId)}

\* State s without the mark x.
Unmarked(s, x) == [s EXCEPT !.taskCancelSet = @ \ {x}]

\* C23: (1) a mark with an id not yet issued in the session stays in the
\* cancel set, whatever is called or settles, until a clear() or until the
\* next entry that is given the id is skipped; (2) an entry whose id is marked
\* while it is pending (and is the id of no other entry in flight) stays
\* pending, the mark kept, until it is skipped (or cleared), its callable
\* never invoked and nothing reported for it;
\* (3) a mark with the id of a finished entry has no effect: every call and
\* job leads to the same state, the mark apart, as it does without the mark.
C23_MarkNotTied ==
    /\ \A n \in Ids :
           ( /\ h[n].st = "none" /\ n >= nextId
             /\ Shl(n, sessionId) \in taskCancelSet
             /\ \A k \in Ids : k < n /\ (k >= nextId \/ ~Finished(k))
                    => Shl(k, sessionId) # Shl(n, sessionId) )
               => \A r \in AllResults : r.sessionId = sessionId =>
                      \/ /\ Shl(n, sessionId) \in r.taskCancelSet
                         /\ r.h[n].st \in {"none", "queued"}
                      \/ r.h[n].st = "skipped" /\ Reports(r.h[n]) = Silent
    /\ \A n \in Ids :
           ( /\ h[n].st = "queued" /\ EntryId(n) \in taskCancelSet
             /\ \A a \in Ids : a # n /\ h[a].st # "none" /\ ~Finished(a)
                    => EntryId(a) # EntryId(n) )
               => \A r \in AllResults :
                      /\ r.h[n].st \in {"queued", "skipped", "cleared"}
                      /\ Reports(r.h[n]) = Silent
                      /\ r.h[n].st = "queued" => EntryId(n) \in r.taskCancelSet
    /\ \A x \in DeadMarks :
           /\ nextId <= scope.ids => \A o \in Draws({"cat"}) :
                  Unmarked(addTask(With(o)), x) = addTask(Unmarked(With(o), x))
           /\ InUser("task") =>
                  \A o \in Draws({"res", "nowait"}) :
                      \A out \in {"value", "promise", "throw"} :
                          Unmarked(userDone(With(o), out), x)
                              = userDone(Unmarked(With(o), x), out)
           /\ InUser("callback") =>
                  \A o \in Draws({}) : \A out \in {"ok", "throw"} :
                      Unmarked(userDone(With(o), out), x)
                          = userDone(Unmarked(With(o), x), out)
           /\ \A p \in Ready("pending") : \A o \in Draws({"res", "rej"}) :
                  \A ok \in BOOLEAN :
                      Unmarked(thenHandler(With(o), p, ok), x)
                          = thenHandler(Unmarked(With(o), x), p, ok)
           /\ \A p \in Ready("catch") : \A o \in Draws({}) :
                  Unmarked(catchHandler(With(o), p), x)
                      = catchHandler(Unmarked(With(o), x), p)

\* The promise chains of the current session that are waited for and whose
\* job of phase ph can run next.
WaitReady(ph) == {p \in Ready(ph) : ~p.task.nowait /\ p.sess = sessionId}

\* A callback of a wait-mode entry of the current session, invoked by the
\* handler of kind k ("then" or "catchh") of its chain, is executing.
InChainCallback(k) ==
    /\ InUser("callback") /\ Len(stack) = 2
    /\ stack[1].k = k /\ ~stack[1].task.nowait /\ stack[1].sess = sessionId

\* C24, the advancement: the settlement of a wait-mode entry of the current
\* session advances the loop: in the job of the settlement when no callback
\* is invoked, else when the callback returns; and when the entry's own
\* callback raises, the catch handler of the chain reports the error once, to
\* the entry's catch callback if supplied, else to the diagnostic, and
\* advances the loop (when the catch callback returns, if there is one).
C24_SettleAdvances ==
    /\ \A p \in WaitReady("pending") : \A o \in Draws({"res", "rej"}) :
           \A ok \in BOOLEAN :
               LET r == thenHandler(With(o), p, ok)
               IN  \/ Advanced(r)
                   \/ /\ Len(r.stack) = 2 /\ Top(r).k = "user"
                      /\ Top(r).task.n = p.task.n /\ r.tasks = tasks
    /\ InChainCallback("then") =>
           \A o \in Draws({}) :
               /\ Advanced(userDone(With(o), "ok"))
               /\ LET r == userDone(With(o), "throw")
                  IN  /\ r.tasks = tasks /\ r.stack = <<>>
                      /\ \E q \in r.promises :
                             q.ph = "catch" /\ q.task.n = stack[1].task.n
    /\ \A p \in WaitReady("catch") : \A o \in Draws({}) :
           LET r == catchHandler(With(o), p)
           IN  /\ New(r, p.task.n) = <<0, 0, IF p.task.cat THEN 1 ELSE 0,
                                       IF p.task.cat THEN 0 ELSE 1>>
               /\ IF p.task.cat
                  THEN /\ Len(r.stack) = 2 /\ Top(r).k = "user"
                       /\ Top(r).task.n = p.task.n /\ r.tasks = tasks
                  ELSE Advanced(r)
    /\ InChainCallback("catchh") =>
           \A o \in Draws({}) : Advanced(userDone(With(o), "ok"))

\* C24: besides, the settlement advances the loop no second time and the
\* error is reported to the entry whose callback raised: the catch handler of
\* the chain of a wait-mode entry of the current session, which reports to
\* that entry and advances the loop, is due only when a callback of that
\* entry itself has raised.
C24_AdvancesOnce ==
    /\ C24_SettleAdvances
    /\ \A p \in promises :
           p.ph = "catch" /\ ~p.task.nowait /\ p.sess = sessionId
               => h[p.task.n].raised

====
